---- MODULE Spec2Model ----
(***************************************************************************)
(* fastlvm: the CoverTree primitive (src/fastlvm/covertree.py) over the    *)
(* native cover-tree index covertreec.  The Python wrapper is modelled     *)
(* from its source; the native index, which is not part of the Python      *)
(* sources, is modelled from the design document (sections 4.1, 4.2, 4.3). *)
(*                                                                         *)
(* Points are tuples of integer coordinates (a coordinate c stands for     *)
(* c/10, so that 9 is 0.9); distances are compared through their squares.  *)
(* A Python None is the empty tuple, a value x that may be None is <<x>>.  *)
(* Identities are 0-based as in the code: identity i is points[i + 1].     *)
(*                                                                         *)
(* Three specifications share the module.  Spec: one CoverTree primitive   *)
(* and the calls made on it (variables self, call).  SpecLife: one         *)
(* primitive of CoverTree, KMeans (src/fastlvm/kmeans.py), HDP (hdp.py) or *)
(* LDA (lda.py) as the owner of native resources, from its construction to *)
(* its drop (variables prim, twin, heap, seen).  SpecConc: batches of      *)
(* CoverTree.produce running in two threads on one fitted primitive        *)
(* (variables self, threads).                                              *)
(***************************************************************************)
EXTENDS Integers, Sequences, FiniteSets

VARIABLES self, call, threads, prim, twin, heap, seen

vars == <<self, call, threads, prim, twin, heap, seen>>

---------------------------------------------------------------------------
(* Bounds of the model *)

\* a query batch holds at most MaxCells identities (rows * k)
MaxCells == 6

\* a query batch that the index answers as designed has at most MaxRows rows
MaxRows == 1

\* the largest identity a defective index yields: past every point set
MaxIdent == 5

\* the native resources (models, trees, topic matrices) created in one run
MaxHandles == 3

---------------------------------------------------------------------------
(* Program constants *)

INDEX_OUT_OF_BOUND_COUNT_MAX == 3

\* HyperParams.trunc: -1 means no truncation
NoTrunc == -1

\* the truncation init_covertree builds its tree with
SeedTrunc == 3

---------------------------------------------------------------------------
(* Values *)

None == <<>>

Some(x) == <<x>>

Val(o) == o[1]

\* the point sets a caller hands to set_training_data
DEmpty == <<>>

DRagged == << <<0>>, <<10, 10>> >>

DPair == << <<0>>, <<10>> >>

DLine == << <<0>>, <<10>>, <<20>>, <<30>>, <<1000>> >>

DataSets == {DEmpty, DRagged, DPair, DLine}

\* the query points: 0.9, 1.5 (as far from 1 as from 2) and 60
QueryPoints == {<<9>>, <<15>>, <<600>>}

\* the values of the hyperparameters k and trunc the model covers
KValues == {1, 2}

TruncValues == {NoTrunc, 0}

\* the number of rows of a batch for a given k: at least one row
RowCounts(k) == {n \in 1..MaxCells : n * k <= MaxCells}

\* all tuples of length n over the set S
Tuples(S, n) == [1..n -> S]

Min(a, b) == IF a < b THEN a ELSE b

---------------------------------------------------------------------------
(* The native index covertreec, from the design document *)

RECURSIVE SumSq(_, _, _)
SumSq(p, q, d) ==
    IF d = 0 THEN 0
    ELSE (p[d] - q[d]) * (p[d] - q[d]) + SumSq(p, q, d - 1)

\* squared Euclidean distance
Dist2(p, q) == SumSq(p, q, Min(Len(p), Len(q)))

\* Construct fails with InvalidInput on an empty point set and on vectors
\* of inconsistent dimension
ValidPoints(points) ==
    /\ points # <<>>
    /\ \A i \in DOMAIN points : Len(points[i]) = Len(points[1])

\* covertreec.new(points, trunc): a handle, or InvalidInput and no handle
covertreec_new(points, trunc) ==
    IF ValidPoints(points)
    THEN [err |-> "none", handle |-> Some([pts |-> points, trunc |-> trunc])]
    ELSE [err |-> "InvalidInput", handle |-> None]

\* the identities of a tree
Idents(tree) == 0..(Len(tree.pts) - 1)

\* identity i comes before identity j in the answer to query q:
\* ascending distance, ties broken by the lower identity
Closer(tree, q, i, j) ==
    LET di == Dist2(tree.pts[i + 1], q)
        dj == Dist2(tree.pts[j + 1], q)
    IN  di < dj \/ (di = dj /\ i < j)

\* the number of identities that come before i
Rank(tree, q, i) == Cardinality({j \in Idents(tree) : Closer(tree, q, j, i)})

\* the identity of rank r (r = 0 is the nearest)
AtRank(tree, q, r) == CHOOSE i \in Idents(tree) : Rank(tree, q, i) = r

\* the tuples whose m-th element is drawn from the m-th set of sets
RECURSIVE Product(_)
Product(sets) ==
    IF sets = <<>> THEN {<<>>}
    ELSE LET front == SubSeq(sets, 1, Len(sets) - 1)
         IN  {Append(t, x) : t \in Product(front), x \in sets[Len(sets)]}

\* what the index may answer at position r of a result row: the identity
\* of rank r; past the size of the point set nothing is specified
Candidates(tree, q, r) ==
    IF r >= Len(tree.pts) THEN 0..MaxIdent ELSE {AtRank(tree, q, r)}

\* the rows the index may return for one query: k identities, ascending by
\* distance, ties broken by the lower identity.  In exact mode this is the
\* true answer; a truncated tree may be approximate (here: it may miss the
\* nearest point and answer from the next one on).
kNearestRow(tree, q, k) ==
    Product([m \in 1..k |-> Candidates(tree, q, m - 1)])
        \cup IF tree.trunc # NoTrunc /\ k < Len(tree.pts)
             THEN {[m \in 1..k |-> AtRank(tree, q, m)]}
             ELSE {}

\* covertreec.NearestNeighbour(handle, queries): the results it may return,
\* one identity per query row
NearestNeighbour(tree, queries) ==
    Product([m \in DOMAIN queries |->
                {row[1] : row \in kNearestRow(tree, queries[m], 1)}])

\* covertreec.kNearestNeighbours(handle, queries, k): one row per query
kNearestNeighbours(tree, queries, k) ==
    Product([m \in DOMAIN queries |-> kNearestRow(tree, queries[m], k)])

\* the coordinates of the points, one point after the other
RECURSIVE Flatten(_)
Flatten(points) ==
    IF points = <<>> THEN <<>>
    ELSE points[1] \o Flatten(Tail(points))

\* the points of a flat buffer of n points of dimension d
Unflatten(flat, d, n) ==
    [i \in 1..n |-> SubSeq(flat, (i - 1) * d + 1, i * d)]

\* covertreec.serialize(handle): truncation, dimension and number of the
\* points, then their coordinates
covertreec_serialize(tree) ==
    <<tree.trunc, Len(tree.pts[1]), Len(tree.pts)>> \o Flatten(tree.pts)

\* the structural validation of a buffer
ValidBuffer(bytes) ==
    /\ Len(bytes) >= 3
    /\ bytes[1] >= NoTrunc
    /\ bytes[2] >= 1
    /\ bytes[3] >= 1
    /\ Len(bytes) = 3 + bytes[2] * bytes[3]

\* covertreec.deserialize(bytes): a new handle, or CorruptData and no handle
covertreec_deserialize(bytes) ==
    IF ValidBuffer(bytes)
    THEN [err |-> "none",
          handle |-> Some([pts |-> Unflatten(SubSeq(bytes, 4, Len(bytes)),
                                             bytes[2], bytes[3]),
                           trunc |-> bytes[1]])]
    ELSE [err |-> "CorruptData", handle |-> None]

\* the trees a caller can hold the bytes of
Trees ==
    {[pts |-> d, trunc |-> t] : d \in {x \in DataSets : ValidPoints(x)},
                                t \in TruncValues}

\* a buffer cut short
Truncated(bytes) == SubSeq(bytes, 1, Len(bytes) - 1)

\* the buffers a caller hands to set_params: serialized trees, an empty
\* buffer and a serialized tree cut short
Buffers ==
    {covertreec_serialize(t) : t \in Trees}
        \cup {<<>>, Truncated(covertreec_serialize([pts |-> DPair,
                                                     trunc |-> NoTrunc]))}

---------------------------------------------------------------------------
(* CoverTree, src/fastlvm/covertree.py.  A method is an operator from the  *)
(* object (the record self) and the arguments to the object after the call *)
(* and what the caller sees: the exception raised ("none" when the call    *)
(* returns) and the value returned.                                        *)

\* CoverTree.__init__
CoverTree(hyperparams) ==
    [this |-> None,
     trunc |-> hyperparams.trunc,
     k |-> hyperparams.k,
     training_inputs |-> None,
     fitted |-> FALSE,
     index_out_of_bound_count |-> 0]

\* set_training_data that leaves the fitted flag as it is
set_training_data_keep_flag(s, inputs) ==
    [s EXCEPT !.training_inputs = Some(inputs)]

\* CoverTree.set_training_data
set_training_data(s, inputs) ==
    [s EXCEPT !.training_inputs = Some(inputs), !.fitted = FALSE]

\* fit with the flag set before the tree is built
fit_flag_first(s) ==
    IF s.fitted THEN [self |-> s, raised |-> "none"]
    ELSE IF s.training_inputs = None THEN [self |-> s, raised |-> "ValueError"]
    ELSE LET flagged == [s EXCEPT !.fitted = TRUE]
             built == covertreec_new(Val(s.training_inputs), s.trunc)
         IN  IF built.err # "none" THEN [self |-> flagged, raised |-> built.err]
             ELSE [self |-> [flagged EXCEPT !.this = built.handle],
                   raised |-> "none"]

\* CoverTree.fit
fit(s) ==
    IF s.fitted THEN [self |-> s, raised |-> "none"]
    ELSE IF s.training_inputs = None THEN [self |-> s, raised |-> "ValueError"]
    ELSE LET built == covertreec_new(Val(s.training_inputs), s.trunc)
         IN  IF built.err # "none" THEN [self |-> s, raised |-> built.err]
             ELSE [self |-> [s EXCEPT !.this = built.handle, !.fitted = TRUE],
                   raised |-> "none"]

\* the warning of to_label and to_labels is logged while the counter is
\* below the maximum; the number of warnings logged after this identity
Logged(st) ==
    IF st.count < INDEX_OUT_OF_BOUND_COUNT_MAX THEN st.logged + 1
    ELSE st.logged

\* produce.to_label(i), with _y the training inputs; st is the counter
\* self._index_out_of_bound_count and the warnings logged so far
to_label(i, y, st) ==
    IF i < Len(y) THEN [ret |-> i, count |-> st.count, logged |-> st.logged]
    ELSE [ret |-> 0, count |-> st.count + 1, logged |-> Logged(st)]

\* the inner loop of to_labels: the first j of the row below len(_y) is
\* appended, nothing when the row holds none
FirstInRange(row, y) ==
    IF \E j \in DOMAIN row : row[j] < Len(y)
    THEN LET j == CHOOSE j \in DOMAIN row :
                      /\ row[j] < Len(y)
                      /\ \A l \in 1..(j - 1) : row[l] >= Len(y)
         IN  <<row[j]>>
    ELSE <<>>

\* to_labels after the first n identities of the row
RECURSIVE to_labels_upto(_, _, _, _)
to_labels_upto(row, y, st, n) ==
    IF n = 0 THEN [ret |-> <<>>, count |-> st.count, logged |-> st.logged]
    ELSE LET before == to_labels_upto(row, y, st, n - 1)
             i == row[n]
         IN  IF i < Len(y)
             THEN [before EXCEPT !.ret = Append(before.ret, i)]
             ELSE [ret |-> before.ret \o FirstInRange(row, y),
                   count |-> before.count + 1,
                   logged |-> Logged(before)]

\* produce.to_labels(row); np.squeeze leaves a list of 0 or of k >= 2
\* labels as it is
to_labels(row, y, st) == to_labels_upto(row, y, st, Len(row))

\* [to_label(i) for i in results] after the first n results
RECURSIVE labels_upto(_, _, _, _)
labels_upto(results, y, st, n) ==
    IF n = 0
    THEN [raised |-> "none", ret |-> <<>>,
          count |-> st.count, logged |-> st.logged]
    ELSE LET before == labels_upto(results, y, st, n - 1)
             r == to_label(results[n][1], y, before)
         IN  [raised |-> "none", ret |-> Append(before.ret, <<r.ret>>),
              count |-> r.count, logged |-> r.logged]

\* np.apply_along_axis(to_labels, 1, results) after the first n rows: the
\* first row's result gives the width of the output, and a later result of
\* another width cannot be stored in it (ValueError)
RECURSIVE apply_along_axis_upto(_, _, _, _)
apply_along_axis_upto(results, y, st, n) ==
    IF n = 0
    THEN [raised |-> "none", ret |-> <<>>,
          count |-> st.count, logged |-> st.logged]
    ELSE LET before == apply_along_axis_upto(results, y, st, n - 1)
             r == to_labels(results[n], y, before)
         IN  IF before.raised # "none" THEN before
             ELSE IF n > 1 /\ Len(r.ret) # Len(before.ret[1])
             THEN [raised |-> "ValueError", ret |-> <<>>,
                   count |-> r.count, logged |-> r.logged]
             ELSE [raised |-> "none", ret |-> Append(before.ret, r.ret),
                   count |-> r.count, logged |-> r.logged]

\* the identities predicted from the results of the index, by the branch
\* k == 1 or by the branch k > 1
Predicted(k, results, y, st) ==
    IF k = 1 THEN labels_upto(results, y, st, Len(results))
    ELSE apply_along_axis_upto(results, y, st, Len(results))

\* the closing warning "And {} more index out of bounds warnings": the
\* number it states, -1 when it is not logged
Summary(count) ==
    IF count >= INDEX_OUT_OF_BOUND_COUNT_MAX
    THEN 1 + count - INDEX_OUT_OF_BOUND_COUNT_MAX
    ELSE -1

\* produce without the reset of the counter
KeepCount(s) == s

\* produce resetting the fitted flag with the counter
ResetCountAndFitted(s) ==
    [s EXCEPT !.index_out_of_bound_count = 0, !.fitted = FALSE]

\* the counter at the start of produce
ResetCount(s) == [s EXCEPT !.index_out_of_bound_count = 0]

\* produce without the test of the handle
produce_unchecked(s, results) ==
    LET s0 == ResetCount(s)
        st0 == [count |-> s0.index_out_of_bound_count, logged |-> 0]
    IN  IF s.training_inputs = None
        THEN [self |-> s0, raised |-> "TypeError", out |-> <<>>,
              logged |-> 0, summary |-> -1]
        ELSE LET p == Predicted(s.k, results, Val(s.training_inputs), st0)
                 s1 == [s0 EXCEPT !.index_out_of_bound_count = p.count]
             IN  IF p.raised # "none"
                 THEN [self |-> s1, raised |-> p.raised, out |-> <<>>,
                       logged |-> p.logged, summary |-> -1]
                 ELSE [self |-> s1, raised |-> "none", out |-> p.ret,
                       logged |-> p.logged, summary |-> Summary(p.count)]

\* CoverTree.produce, given the results the index returns for the inputs.
\* len(_y) raises TypeError when the training inputs are None.
produce(s, results) ==
    LET s0 == ResetCount(s)
        st0 == [count |-> s0.index_out_of_bound_count, logged |-> 0]
    IN  IF s.this = None
        THEN [self |-> s0, raised |-> "ValueError", out |-> <<>>,
              logged |-> 0, summary |-> -1]
        ELSE IF s.training_inputs = None
        THEN [self |-> s0, raised |-> "TypeError", out |-> <<>>,
              logged |-> 0, summary |-> -1]
        ELSE LET p == Predicted(s.k, results, Val(s.training_inputs), st0)
                 s1 == [s0 EXCEPT !.index_out_of_bound_count = p.count]
             IN  IF p.raised # "none"
                 THEN [self |-> s1, raised |-> p.raised, out |-> <<>>,
                       logged |-> p.logged, summary |-> -1]
                 ELSE [self |-> s1, raised |-> "none", out |-> p.ret,
                       logged |-> p.logged, summary |-> Summary(p.count)]

\* CoverTree.get_params; covertreec.serialize takes no None
get_params(s) ==
    IF s.this = None THEN [raised |-> "TypeError", ret |-> <<>>]
    ELSE [raised |-> "none", ret |-> covertreec_serialize(Val(s.this))]

\* CoverTree.set_params
set_params(s, params) ==
    LET loaded == covertreec_deserialize(params)
    IN  IF loaded.err # "none" THEN [self |-> s, raised |-> loaded.err]
        ELSE [self |-> [s EXCEPT !.this = loaded.handle], raised |-> "none"]

---------------------------------------------------------------------------
(* The program: one CoverTree primitive and the calls made on it.  call is *)
(* what the caller saw of the last call.                                   *)

\* a call that is no query batch
Seen(op, raised, ret) ==
    [op |-> op, raised |-> raised, queries |-> <<>>, results |-> <<>>,
     out |-> <<>>, logged |-> 0, summary |-> -1, ret |-> ret,
     again |-> FALSE]

\* a call of produce; again: it repeats the batch before it
SeenBatch(queries, results, r, again) ==
    [op |-> "produce", raised |-> r.raised, queries |-> queries,
     results |-> results, out |-> r.out, logged |-> r.logged,
     summary |-> r.summary, ret |-> <<>>, again |-> again]

\* the rows of a 1-D array of identities
Rows(flat) == [m \in DOMAIN flat |-> <<flat[m]>>]

\* the results the index, working as designed, may return to produce
IndexResults(s, queries) ==
    IF s.this = None THEN {<<>>}
    ELSE IF s.k = 1
    THEN {Rows(r) : r \in NearestNeighbour(Val(s.this), queries)}
    ELSE kNearestNeighbours(Val(s.this), queries, s.k)

\* the identities a defective index yields: one that is in the range of
\* every point set built (and is not the fallback 0), one in the range of none
AnomalousIdents == {1, MaxIdent}

\* the results of a defective index: n rows of k identities
AnomalousResults(k, n) == Tuples(Tuples(AnomalousIdents, k), n)

\* no thread is inside produce, and no other primitive is alive
Sequential ==
    /\ threads = <<>>
    /\ prim = None
    /\ twin = None
    /\ heap = <<>>
    /\ seen = None

Init ==
    /\ \E t \in TruncValues, k \in KValues :
           self = CoverTree([trunc |-> t, k |-> k])
    /\ call = Seen("init", "none", <<>>)
    /\ Sequential

SetTrainingData ==
    \E inputs \in DataSets :
        /\ self' = set_training_data(self, inputs)
        /\ call' = Seen("set_training_data", "none", <<>>)
        /\ UNCHANGED <<threads, prim, twin, heap, seen>>

Fit ==
    LET r == fit(self)
    IN  /\ self' = r.self
        /\ call' = Seen("fit", r.raised, <<>>)
        /\ UNCHANGED <<threads, prim, twin, heap, seen>>

\* a batch of queries; two batches in a row are a batch and its repetition
Produce ==
    /\ call.op # "produce"
    /\ \E n \in RowCounts(self.k) \cap 1..MaxRows :
         \E queries \in Tuples(QueryPoints, n) :
         \E results \in IndexResults(self, queries) :
            LET r == produce(self, results)
            IN  /\ self' = r.self
                /\ call' = SeenBatch(queries, results, r, FALSE)
                /\ UNCHANGED <<threads, prim, twin, heap, seen>>

\* a batch (of n times the query 0.9) that the index answers with
\* identities of its own; without a tree or without training inputs produce
\* raises before it reads them, as in Produce
ProduceAnomaly ==
    /\ call.op # "produce"
    /\ self.this # None
    /\ self.training_inputs # None
    /\ \E n \in RowCounts(self.k) :
         \E results \in AnomalousResults(self.k, n) :
            LET r == produce(self, results)
            IN  /\ self' = r.self
                /\ call' = SeenBatch([m \in 1..n |-> <<9>>], results, r, FALSE)
                /\ UNCHANGED <<threads, prim, twin, heap, seen>>

\* the same batch again, answered by the index as before
ProduceAgain ==
    /\ call.op = "produce"
    /\ LET r == produce(self, call.results)
       IN  /\ self' = r.self
           /\ call' = SeenBatch(call.queries, call.results, r, TRUE)
           /\ UNCHANGED <<threads, prim, twin, heap, seen>>

GetParams ==
    LET r == get_params(self)
    IN  /\ self' = self
        /\ call' = Seen("get_params", r.raised, r.ret)
        /\ UNCHANGED <<threads, prim, twin, heap, seen>>

SetParams ==
    \E params \in Buffers :
        LET r == set_params(self, params)
        IN  /\ self' = r.self
            /\ call' = Seen("set_params", r.raised, <<>>)
            /\ UNCHANGED <<threads, prim, twin, heap, seen>>

Next ==
    \/ SetTrainingData
    \/ Fit
    \/ Produce
    \/ ProduceAnomaly
    \/ ProduceAgain
    \/ GetParams
    \/ SetParams

Spec == Init /\ [][Next]_vars

---------------------------------------------------------------------------
(* The native resources of the four primitives.  heap[id] is the resource  *)
(* the handle id names: a tree (covertreec), a model (kmeansc, hdpc, ldac) *)
(* or a topic matrix, the instance it was created for, what it was created *)
(* from, and whether it has been deleted.  The native libraries are not    *)
(* part of the Python sources: new, deserialize and topic_matrix return a  *)
(* resource of their own, delete releases the resources it is given.       *)

\* the handle of the resource the next new, deserialize or topic_matrix
\* returns
Fresh(h) == Len(h) + 1

\* new, deserialize, topic_matrix: a resource no other handle names
Alloc(h, kind, owner, data) ==
    Append(h, [kind |-> kind, owner |-> owner, data |-> data,
               trained |-> FALSE, state |-> "live"])

\* the release of a resource; of a released one it is a double free
Free(h, id) ==
    [h EXCEPT ![id].state = IF @ = "live" THEN "deleted" ELSE "deleted twice"]

\* covertreec.delete(this), kmeansc.delete(this)
native_delete(h, this) == Free(h, this)

\* hdpc.delete(this, ext), ldac.delete(this, ext): the model and, when
\* there is one, the topic matrix taken from it
native_delete_ext(h, this, ext) ==
    IF ext = None THEN Free(h, this) ELSE Free(Free(h, this), Val(ext))

\* kmeansc.fit, hdpc.fit, ldac.fit: the model is trained in place
native_fit(h, this) == [h EXCEPT ![this].trained = TRUE]

\* the identities selected so far, as a set
Selected(seeds) == {seeds[m] : m \in DOMAIN seeds}

\* the squared distance of identity i to the nearest selected identity
MinDist2(tree, i, seeds) ==
    LET d(j) == Dist2(tree.pts[i + 1], tree.pts[j + 1])
        n == CHOOSE j \in Selected(seeds) :
                 \A l \in Selected(seeds) : d(j) <= d(l)
    IN  d(n)

\* the next identity of SpreadOut: one not selected that maximises its
\* minimum distance to the selected ones (the lowest of them)
Farthest(tree, seeds) ==
    LET rest == Idents(tree) \ Selected(seeds)
    IN  CHOOSE i \in rest :
            \A j \in rest :
                \/ MinDist2(tree, i, seeds) > MinDist2(tree, j, seeds)
                \/ /\ MinDist2(tree, i, seeds) = MinDist2(tree, j, seeds)
                   /\ i <= j

\* covertreec.spreadout(ptr, k), SpreadOut(k) of the design document:
\* farthest-point sampling from the point it starts from, "an arbitrary or
\* first point"
RECURSIVE covertreec_spreadout(_, _, _)
covertreec_spreadout(tree, k, start) ==
    IF k = 0 THEN <<>>
    ELSE IF k = 1 THEN <<start>>
    ELSE LET before == covertreec_spreadout(tree, k - 1, start)
         IN  IF Selected(before) = Idents(tree) THEN before
             ELSE Append(before, Farthest(tree, before))

\* fastlvm.utils.get_documents(inputs): the raw documents of the text
\* fields, None when the inputs have no text field
get_documents(inputs) ==
    IF inputs = "text" THEN Some("documents") ELSE None

---------------------------------------------------------------------------
(* The primitives as owners of native resources.  An instance is a record  *)
(* of the fields the four classes share; a method is an operator from the  *)
(* instance and the heap to the instance and the heap after the call, the  *)
(* exception raised, the value returned and the number of native calls     *)
(* made.                                                                   *)

\* an instance as __init__ leaves it; who names the instance
Instance(class, who, k, initialization) ==
    [class |-> class, who |-> who, alive |-> TRUE,
     this |-> None, ext |-> None, fitted |-> FALSE,
     training_inputs |-> None, k |-> k, initialization |-> initialization]

Result(o, h, raised, ret, native) ==
    [self |-> o, heap |-> h, raised |-> raised, ret |-> ret,
     native |-> native]

\* the attributes __init__ assigns to an instance (those the model keeps),
\* each with the field that holds it; the base class defines none of the
\* name fitted
Attributes ==
    [_this |-> "this", _ext |-> "ext", _fitted |-> "fitted",
     _training_inputs |-> "training_inputs", _k |-> "k",
     _initialization |-> "initialization"]

\* self.<name>
getattr(o, name) ==
    IF name \in DOMAIN Attributes
    THEN [raised |-> "none", ret |-> o[Attributes[name]]]
    ELSE [raised |-> "AttributeError", ret |-> None]

\* the buffers handed to set_params in the lifecycle of a primitive: the
\* bytes of a serialized model and bytes deserialize rejects
Params == {"bytes", "corrupt"}

\* deserialize(params): a new handle, or CorruptData and no handle
native_deserialize(o, h, params) ==
    IF params = "corrupt" THEN Result(o, h, "CorruptData", None, 1)
    ELSE Result([o EXCEPT !.this = Some(Fresh(h))],
                Alloc(h, IF o.class = "CoverTree" THEN "tree" ELSE "model",
                      o.who, params),
                "none", None, 1)

\* a native call that reads the resource this names and returns ret: the
\* native functions take no None, and of a released resource the outcome is
\* not defined
native_read(o, h, this, ret) ==
    IF this = None THEN Result(o, h, "TypeError", None, 1)
    ELSE IF h[Val(this)].state # "live" THEN Result(o, h, "undefined", None, 1)
    ELSE Result(o, h, "none", ret, 1)

(* CoverTree, src/fastlvm/covertree.py *)

CoverTree_init == Instance("CoverTree", "prim", 0, "none")

\* CoverTree.__del__
CoverTree_del(o, h) ==
    IF o.this # None THEN native_delete(h, Val(o.this)) ELSE h

\* CoverTree.set_training_data
CoverTree_set_training_data(o, h, inputs) ==
    Result([o EXCEPT !.training_inputs = Some(inputs), !.fitted = FALSE],
           h, "none", None, 0)

\* fit with the flag set before the tree is built
CoverTree_fit_flag_first(o, h) ==
    IF o.fitted THEN Result(o, h, "none", None, 0)
    ELSE IF o.training_inputs = None THEN Result(o, h, "ValueError", None, 0)
    ELSE IF ~ValidPoints(Val(o.training_inputs))
    THEN Result([o EXCEPT !.fitted = TRUE], h, "InvalidInput", None, 1)
    ELSE Result([o EXCEPT !.this = Some(Fresh(h)), !.fitted = TRUE],
                Alloc(h, "tree", o.who, Val(o.training_inputs)),
                "none", None, 1)

\* CoverTree.fit
CoverTree_fit(o, h) ==
    IF o.fitted THEN Result(o, h, "none", None, 0)
    ELSE IF o.training_inputs = None THEN Result(o, h, "ValueError", None, 0)
    ELSE IF ~ValidPoints(Val(o.training_inputs))
    THEN Result(o, h, "InvalidInput", None, 1)
    ELSE Result([o EXCEPT !.this = Some(Fresh(h)), !.fitted = TRUE],
                Alloc(h, "tree", o.who, Val(o.training_inputs)),
                "none", None, 1)

\* CoverTree.get_call_metadata: return self.fitted
CoverTree_get_call_metadata(o, h) ==
    LET a == getattr(o, "fitted")
    IN  Result(o, h, a.raised, a.ret, 0)

\* CoverTree.produce, as far as the handle goes: the query of the index
CoverTree_produce(o, h) ==
    IF o.this = None THEN Result(o, h, "ValueError", None, 0)
    ELSE native_read(o, h, o.this, "neighbours")

\* CoverTree.get_params
CoverTree_get_params(o, h) == native_read(o, h, o.this, "bytes")

\* CoverTree.set_params
CoverTree_set_params(o, h, params) == native_deserialize(o, h, params)

(* KMeans, src/fastlvm/kmeans.py *)

\* init_covertree(k, points): a tree of the points, the seeds spread out
\* over it from the point the index starts from, and the tree deleted
init_covertree(k, points, h, start) ==
    IF ~ValidPoints(points)
    THEN [heap |-> h, raised |-> "InvalidInput", seeds |-> <<>>]
    ELSE LET ptr == Fresh(h)
             built == Alloc(h, "tree", "init_covertree", points)
             tree == [pts |-> points, trunc |-> SeedTrunc]
         IN  [heap |-> native_delete(built, ptr), raised |-> "none",
              seeds |-> covertreec_spreadout(tree, k, start)]

\* KMeans.__init__
KMeans_init(hyperparams) ==
    Instance("KMeans", "prim", hyperparams.k, hyperparams.initialization)

\* KMeans.__del__
KMeans_del(o, h) ==
    IF o.this # None THEN native_delete(h, Val(o.this)) ELSE h

\* training_inputs[:k]
FirstK(points, k) == SubSeq(points, 1, Min(k, Len(points)))

\* kmeansc.new(k, iters, initial_centres) and the assignments after it
KMeans_new(o, h, centres, native) ==
    Result([o EXCEPT !.this = Some(Fresh(h)), !.fitted = FALSE],
           Alloc(h, "model", o.who, centres), "none", None, native + 1)

\* set_training_data with the seeds of init_covertree taken from the handle
\* the primitive holds
seeds_by_handle(o, h, inputs, start) ==
    LET o1 == [o EXCEPT !.training_inputs = Some(inputs)]
        at == IF o.this = None THEN 0
              ELSE Val(o.this) % Len(inputs)
        seeded == init_covertree(o.k, inputs, h, at)
    IN  IF o.initialization = "firstk"
        THEN KMeans_new(o1, h, FirstK(inputs, o.k), 0)
        ELSE IF seeded.raised # "none"
        THEN Result(o1, seeded.heap, seeded.raised, None, 1)
        ELSE KMeans_new(o1, seeded.heap, seeded.seeds, 3)

\* KMeans.set_training_data, for the initialisations firstk and covertree;
\* start is the point the index starts spreading out from
KMeans_set_training_data(o, h, inputs, start) ==
    LET o1 == [o EXCEPT !.training_inputs = Some(inputs)]
        seeded == init_covertree(o.k, inputs, h, start)
    IN  IF o.initialization = "firstk"
        THEN KMeans_new(o1, h, FirstK(inputs, o.k), 0)
        ELSE IF o.initialization = "covertree"
        THEN IF seeded.raised # "none"
             THEN Result(o1, seeded.heap, seeded.raised, None, 1)
             ELSE KMeans_new(o1, seeded.heap, seeded.seeds, 3)
        ELSE Result(o1, h, "NotImplementedError", None, 0)

\* fit without the test of the training data
KMeans_fit_unchecked(o, h) ==
    IF o.fitted THEN Result(o, h, "none", None, 0)
    ELSE IF o.this = None THEN Result(o, h, "TypeError", None, 1)
    ELSE Result([o EXCEPT !.fitted = TRUE], native_fit(h, Val(o.this)),
                "none", None, 1)

\* KMeans.fit; kmeansc.fit takes no None
KMeans_fit(o, h) ==
    IF o.fitted THEN Result(o, h, "none", None, 0)
    ELSE IF o.training_inputs = None THEN Result(o, h, "ValueError", None, 0)
    ELSE IF o.this = None THEN Result(o, h, "TypeError", None, 1)
    ELSE Result([o EXCEPT !.fitted = TRUE], native_fit(h, Val(o.this)),
                "none", None, 1)

\* KMeans.get_call_metadata: return self.fitted
KMeans_get_call_metadata(o, h) ==
    LET a == getattr(o, "fitted")
    IN  Result(o, h, a.raised, a.ret, 0)

\* KMeans.produce
KMeans_produce(o, h) == native_read(o, h, o.this, "clusters")

\* KMeans.evaluate
KMeans_evaluate(o, h) == native_read(o, h, o.this, "score")

\* KMeans.produce_centers
KMeans_produce_centers(o, h) == native_read(o, h, o.this, "centers")

\* KMeans.get_params
KMeans_get_params(o, h) == native_read(o, h, o.this, "bytes")

\* KMeans.set_params
KMeans_set_params(o, h, params) == native_deserialize(o, h, params)

(* HDP, src/fastlvm/hdp.py *)

HDP_init == Instance("HDP", "prim", 0, "none")

\* HDP.__del__
HDP_del(o, h) ==
    IF o.this # None THEN native_delete_ext(h, Val(o.this), o.ext) ELSE h

\* HDP.set_training_data
HDP_set_training_data(o, h, inputs) ==
    Result([o EXCEPT !.training_inputs = Some(inputs), !.fitted = FALSE],
           h, "none", None, 0)

\* fit that gives the model up whatever the documents are
HDP_fit_without_model(o, h) ==
    IF o.fitted THEN Result(o, h, "none", None, 0)
    ELSE IF o.training_inputs = None THEN Result(o, h, "ValueError", None, 0)
    ELSE IF o.this # None
    THEN Result([o EXCEPT !.fitted = TRUE, !.this = None],
                native_delete_ext(h, Val(o.this), o.ext), "none", None, 1)
    ELSE Result([o EXCEPT !.fitted = TRUE], h, "none", None, 0)

\* HDP.fit: without text the model is given up, with text a model is
\* created for the vocabulary of the documents and trained on them
HDP_fit(o, h) ==
    IF o.fitted THEN Result(o, h, "none", None, 0)
    ELSE IF o.training_inputs = None THEN Result(o, h, "ValueError", None, 0)
    ELSE IF get_documents(Val(o.training_inputs)) = None
    THEN IF o.this # None
         THEN Result([o EXCEPT !.fitted = TRUE, !.this = None],
                     native_delete_ext(h, Val(o.this), o.ext), "none", None, 1)
         ELSE Result([o EXCEPT !.fitted = TRUE], h, "none", None, 0)
    ELSE Result([o EXCEPT !.this = Some(Fresh(h)), !.fitted = TRUE],
                native_fit(Alloc(h, "model", o.who, Val(o.training_inputs)),
                           Fresh(h)),
                "none", None, 2)

\* HDP.get_call_metadata: return self._fitted
HDP_get_call_metadata(o, h) ==
    LET a == getattr(o, "_fitted")
    IN  Result(o, h, a.raised, a.ret, 0)

\* HDP.produce: without a model the inputs are returned as they are; with
\* one the documents of the inputs are tokenized and hdpc.predict gives
\* the features.  Of a released model the outcome is not defined.
HDP_produce(o, h, inputs) ==
    IF o.this = None THEN Result(o, h, "none", Some(inputs), 0)
    ELSE IF h[Val(o.this)].state # "live"
    THEN Result(o, h, "undefined", None, 1)
    ELSE Result(o, h, "none", Some("features"), 1)

\* HDP.evaluate: hdpc.evaluate takes no None; of a released model the
\* outcome is not defined
HDP_evaluate(o, h) ==
    IF o.this = None THEN Result(o, h, "TypeError", None, 1)
    ELSE IF h[Val(o.this)].state # "live"
    THEN Result(o, h, "undefined", None, 1)
    ELSE Result(o, h, "none", "score", 1)

\* HDP.produce_topic_matrix: the matrix is taken from the model once and
\* kept in self._ext
HDP_produce_topic_matrix(o, h) ==
    IF o.ext # None THEN Result(o, h, "none", o.ext, 0)
    ELSE IF o.this = None THEN Result(o, h, "TypeError", None, 1)
    ELSE Result([o EXCEPT !.ext = Some(Fresh(h))],
                Alloc(h, "matrix", o.who, Val(o.this)),
                "none", Some(Fresh(h)), 1)

\* HDP.get_params
HDP_get_params(o, h) == native_read(o, h, o.this, "bytes")

\* HDP.set_params
HDP_set_params(o, h, params) == native_deserialize(o, h, params)

(* LDA, src/fastlvm/lda.py *)

LDA_init == Instance("LDA", "prim", 0, "none")

\* LDA.__del__
LDA_del(o, h) ==
    IF o.this # None THEN native_delete_ext(h, Val(o.this), o.ext) ELSE h

\* LDA.set_training_data
LDA_set_training_data(o, h, inputs) ==
    Result([o EXCEPT !.training_inputs = Some(inputs), !.fitted = FALSE],
           h, "none", None, 0)

\* fit that keeps the model it holds when the documents have no text
LDA_fit_keeping_model(o, h) ==
    IF o.fitted THEN Result(o, h, "none", None, 0)
    ELSE IF o.training_inputs = None THEN Result(o, h, "ValueError", None, 0)
    ELSE IF get_documents(Val(o.training_inputs)) = None
    THEN Result([o EXCEPT !.fitted = TRUE], h, "none", None, 0)
    ELSE Result([o EXCEPT !.this = Some(Fresh(h)), !.fitted = TRUE],
                native_fit(Alloc(h, "model", o.who, Val(o.training_inputs)),
                           Fresh(h)),
                "none", None, 2)

\* LDA.fit: without text the model is given up, with text a model is
\* created for the vocabulary of the documents and trained on them
LDA_fit(o, h) ==
    IF o.fitted THEN Result(o, h, "none", None, 0)
    ELSE IF o.training_inputs = None THEN Result(o, h, "ValueError", None, 0)
    ELSE IF get_documents(Val(o.training_inputs)) = None
    THEN IF o.this # None
         THEN Result([o EXCEPT !.fitted = TRUE, !.this = None],
                     native_delete_ext(h, Val(o.this), o.ext), "none", None, 1)
         ELSE Result([o EXCEPT !.fitted = TRUE], h, "none", None, 0)
    ELSE Result([o EXCEPT !.this = Some(Fresh(h)), !.fitted = TRUE],
                native_fit(Alloc(h, "model", o.who, Val(o.training_inputs)),
                           Fresh(h)),
                "none", None, 2)

\* LDA.get_call_metadata: return self._fitted
LDA_get_call_metadata(o, h) ==
    LET a == getattr(o, "_fitted")
    IN  Result(o, h, a.raised, a.ret, 0)

\* LDA.produce: without a model the inputs are returned as they are; with
\* one the documents of the inputs are tokenized and ldac.predict gives
\* the features.  Of a released model the outcome is not defined.
LDA_produce(o, h, inputs) ==
    IF o.this = None THEN Result(o, h, "none", Some(inputs), 0)
    ELSE IF h[Val(o.this)].state # "live"
    THEN Result(o, h, "undefined", None, 1)
    ELSE Result(o, h, "none", Some("features"), 1)

\* LDA.evaluate: ldac.evaluate takes no None; of a released model the
\* outcome is not defined
LDA_evaluate(o, h) ==
    IF o.this = None THEN Result(o, h, "TypeError", None, 1)
    ELSE IF h[Val(o.this)].state # "live"
    THEN Result(o, h, "undefined", None, 1)
    ELSE Result(o, h, "none", "score", 1)

\* LDA.produce_topic_matrix: the matrix is taken from the model once and
\* kept in self._ext
LDA_produce_topic_matrix(o, h) ==
    IF o.ext # None THEN Result(o, h, "none", o.ext, 0)
    ELSE IF o.this = None THEN Result(o, h, "TypeError", None, 1)
    ELSE Result([o EXCEPT !.ext = Some(Fresh(h))],
                Alloc(h, "matrix", o.who, Val(o.this)),
                "none", Some(Fresh(h)), 1)

\* LDA.get_params
LDA_get_params(o, h) == native_read(o, h, o.this, "bytes")

\* LDA.set_params
LDA_set_params(o, h, params) == native_deserialize(o, h, params)

\* LDA.__deepcopy__: the model is copied through its bytes
\* (ldac.serialize takes no None), every other attribute by
\* copy.deepcopy, and _ext is set to the very object the original holds
LDA_deepcopy(o, h) ==
    IF o.this = None THEN [twin |-> None, heap |-> h, raised |-> "TypeError"]
    ELSE [twin |-> Some([o EXCEPT !.who = "twin", !.this = Some(Fresh(h))]),
          heap |-> Alloc(h, "model", "twin", "bytes"),
          raised |-> "none"]

---------------------------------------------------------------------------
(* The life of a primitive: one instance of one of the four classes, the   *)
(* calls made on it until it is dropped, and for LDA the copy             *)
(* copy.deepcopy makes of it.  seen is what the caller saw of the last     *)
(* call; seen.fit_since records whether a fit has succeeded since the most *)
(* recent set_training_data.                                               *)

\* the training inputs: point sets for CoverTree and KMeans, a corpus with
\* or without text fields for HDP and LDA
LifePoints == {DEmpty, DPair, DLine}

Corpora == {"text", "notext"}

\* the values of the hyperparameters k and initialization of KMeans the
\* model covers
Clusters == {1, 2, 3}

Initializations == {"firstk", "covertree"}

\* the points the index may start spreading out from
Starts(o, inputs) ==
    IF o.initialization = "covertree" /\ ValidPoints(inputs)
    THEN 0..(Len(inputs) - 1)
    ELSE {0}

\* what the caller saw of a call
Call(op, r, start) ==
    [op |-> op, raised |-> r.raised, ret |-> r.ret, native |-> r.native,
     start |-> start, inputs |-> None,
     fit_since |-> IF op = "set_training_data" THEN FALSE
                   ELSE IF op = "fit" /\ r.raised = "none" THEN TRUE
                   ELSE seen.fit_since]

\* the primitive is an instance of the class and has not been dropped
Live(class) == prim # None /\ prim.class = class /\ prim.alive

\* a call on the primitive, with its outcome r
Did(op, r, start) ==
    /\ Len(r.heap) <= MaxHandles
    /\ prim' = r.self
    /\ heap' = r.heap
    /\ seen' = Call(op, r, start)
    /\ UNCHANGED <<self, call, threads, twin>>

\* the inputs of produce: a corpus; a primitive that holds a model is
\* given documents to tokenize
ProduceInputs(o) == IF o.this = None THEN Corpora ELSE {"text"}

\* a call of produce on the primitive with the inputs, with its outcome r
Produced(r, inputs) ==
    /\ prim' = r.self
    /\ heap' = r.heap
    /\ seen' = [Call("produce", r, None) EXCEPT !.inputs = Some(inputs)]
    /\ UNCHANGED <<self, call, threads, twin>>

\* the primitive is dropped: __del__ runs, leaving the heap h
Dropped(h) ==
    /\ prim' = [prim EXCEPT !.alive = FALSE]
    /\ heap' = h
    /\ seen' = Call("__del__", Result(prim, h, "none", None, 0), None)
    /\ UNCHANGED <<self, call, threads, twin>>

LifeInit ==
    /\ prim \in {CoverTree_init, HDP_init, LDA_init}
                   \cup {KMeans_init([k |-> k, initialization |-> i]) :
                             k \in Clusters, i \in Initializations}
    /\ twin = None
    /\ heap = <<>>
    /\ seen = [op |-> "init", raised |-> "none", ret |-> None, native |-> 0,
               start |-> None, inputs |-> None, fit_since |-> FALSE]
    /\ self = None
    /\ call = None
    /\ threads = <<>>

CoverTreeSetTrainingData ==
    /\ Live("CoverTree")
    /\ \E inputs \in LifePoints :
           Did("set_training_data",
               CoverTree_set_training_data(prim, heap, inputs), None)

CoverTreeFit == Live("CoverTree") /\ Did("fit", CoverTree_fit(prim, heap), None)

CoverTreeGetCallMetadata ==
    /\ Live("CoverTree")
    /\ Did("get_call_metadata", CoverTree_get_call_metadata(prim, heap), None)

CoverTreeProduce ==
    Live("CoverTree") /\ Did("produce", CoverTree_produce(prim, heap), None)

CoverTreeGetParams ==
    Live("CoverTree") /\ Did("get_params", CoverTree_get_params(prim, heap), None)

CoverTreeSetParams ==
    /\ Live("CoverTree")
    /\ \E params \in Params :
           Did("set_params", CoverTree_set_params(prim, heap, params), None)

CoverTreeDrop == Live("CoverTree") /\ Dropped(CoverTree_del(prim, heap))

KMeansSetTrainingData ==
    /\ Live("KMeans")
    /\ \E inputs \in LifePoints :
         \E start \in Starts(prim, inputs) :
           Did("set_training_data",
               KMeans_set_training_data(prim, heap, inputs, start),
               IF prim.initialization = "covertree" THEN Some(start) ELSE None)

KMeansFit == Live("KMeans") /\ Did("fit", KMeans_fit(prim, heap), None)

KMeansGetCallMetadata ==
    /\ Live("KMeans")
    /\ Did("get_call_metadata", KMeans_get_call_metadata(prim, heap), None)

KMeansProduce ==
    Live("KMeans") /\ Did("produce", KMeans_produce(prim, heap), None)

KMeansEvaluate ==
    Live("KMeans") /\ Did("evaluate", KMeans_evaluate(prim, heap), None)

KMeansProduceCenters ==
    /\ Live("KMeans")
    /\ Did("produce_centers", KMeans_produce_centers(prim, heap), None)

KMeansGetParams ==
    Live("KMeans") /\ Did("get_params", KMeans_get_params(prim, heap), None)

KMeansSetParams ==
    /\ Live("KMeans")
    /\ \E params \in Params :
           Did("set_params", KMeans_set_params(prim, heap, params), None)

KMeansDrop == Live("KMeans") /\ Dropped(KMeans_del(prim, heap))

HDPSetTrainingData ==
    /\ Live("HDP")
    /\ \E inputs \in Corpora :
           Did("set_training_data",
               HDP_set_training_data(prim, heap, inputs), None)

HDPFit == Live("HDP") /\ Did("fit", HDP_fit(prim, heap), None)

HDPGetCallMetadata ==
    /\ Live("HDP")
    /\ Did("get_call_metadata", HDP_get_call_metadata(prim, heap), None)

HDPGetParams ==
    Live("HDP") /\ Did("get_params", HDP_get_params(prim, heap), None)

HDPSetParams ==
    /\ Live("HDP")
    /\ \E params \in Params :
           Did("set_params", HDP_set_params(prim, heap, params), None)

HDPDrop == Live("HDP") /\ Dropped(HDP_del(prim, heap))

HDPProduce ==
    /\ Live("HDP")
    /\ \E inputs \in ProduceInputs(prim) :
           Produced(HDP_produce(prim, heap, inputs), inputs)

HDPEvaluate == Live("HDP") /\ Did("evaluate", HDP_evaluate(prim, heap), None)

HDPProduceTopicMatrix ==
    /\ Live("HDP")
    /\ Did("produce_topic_matrix", HDP_produce_topic_matrix(prim, heap), None)

LDASetTrainingData ==
    /\ Live("LDA")
    /\ \E inputs \in Corpora :
           Did("set_training_data",
               LDA_set_training_data(prim, heap, inputs), None)

LDAFit == Live("LDA") /\ Did("fit", LDA_fit(prim, heap), None)

LDAGetCallMetadata ==
    /\ Live("LDA")
    /\ Did("get_call_metadata", LDA_get_call_metadata(prim, heap), None)

LDAGetParams ==
    Live("LDA") /\ Did("get_params", LDA_get_params(prim, heap), None)

LDASetParams ==
    /\ Live("LDA")
    /\ \E params \in Params :
           Did("set_params", LDA_set_params(prim, heap, params), None)

LDADrop == Live("LDA") /\ Dropped(LDA_del(prim, heap))

LDAProduce ==
    /\ Live("LDA")
    /\ \E inputs \in ProduceInputs(prim) :
           Produced(LDA_produce(prim, heap, inputs), inputs)

LDAEvaluate == Live("LDA") /\ Did("evaluate", LDA_evaluate(prim, heap), None)

LDAProduceTopicMatrix ==
    /\ Live("LDA")
    /\ Did("produce_topic_matrix", LDA_produce_topic_matrix(prim, heap), None)

\* copy.deepcopy of the primitive, once
LDADeepCopy ==
    /\ Live("LDA")
    /\ twin = None
    /\ LET r == LDA_deepcopy(prim, heap)
       IN  /\ Len(r.heap) <= MaxHandles
           /\ twin' = r.twin
           /\ heap' = r.heap
           /\ seen' = Call("__deepcopy__",
                           Result(prim, r.heap, r.raised, None, 2), None)
           /\ UNCHANGED <<self, call, threads, prim>>

\* the copy is dropped
LDADropTwin ==
    /\ twin # None
    /\ Val(twin).alive
    /\ twin' = Some([Val(twin) EXCEPT !.alive = FALSE])
    /\ heap' = LDA_del(Val(twin), heap)
    /\ seen' = Call("__del__", Result(prim, heap, "none", None, 0), None)
    /\ UNCHANGED <<self, call, threads, prim>>

LifeNext ==
    \/ CoverTreeSetTrainingData
    \/ CoverTreeFit
    \/ CoverTreeGetCallMetadata
    \/ CoverTreeProduce
    \/ CoverTreeGetParams
    \/ CoverTreeSetParams
    \/ CoverTreeDrop
    \/ KMeansSetTrainingData
    \/ KMeansFit
    \/ KMeansGetCallMetadata
    \/ KMeansProduce
    \/ KMeansEvaluate
    \/ KMeansProduceCenters
    \/ KMeansGetParams
    \/ KMeansSetParams
    \/ KMeansDrop
    \/ HDPSetTrainingData
    \/ HDPFit
    \/ HDPGetCallMetadata
    \/ HDPGetParams
    \/ HDPSetParams
    \/ HDPDrop
    \/ HDPProduce
    \/ HDPEvaluate
    \/ HDPProduceTopicMatrix
    \/ LDASetTrainingData
    \/ LDAFit
    \/ LDAGetCallMetadata
    \/ LDAGetParams
    \/ LDASetParams
    \/ LDADrop
    \/ LDAProduce
    \/ LDAEvaluate
    \/ LDAProduceTopicMatrix
    \/ LDADeepCopy
    \/ LDADropTwin

SpecLife == LifeInit /\ [][LifeNext]_vars

---------------------------------------------------------------------------
(* Batches of produce running concurrently on one fitted CoverTree         *)
(* primitive, src/fastlvm/covertree.py lines 139-211.  A thread runs       *)
(* produce statement by statement; threads[t] holds its local variables    *)
(* (the results of the index, _y, the position in the results, the labels  *)
(* of the row and the rows predicted so far) and what it has logged.  The  *)
(* threads share the fields of the primitive; the statement                *)
(* self._index_out_of_bound_count += 1 is a load and a store.              *)

Threads == {1, 2}

\* the rows of a batch a thread runs
BatchRows == {1, 2}

\* the primitive the threads share: fitted on two points, exact mode
Shared(k) ==
    fit(set_training_data(CoverTree([trunc |-> NoTrunc, k |-> k]), DPair)).self

\* a thread that is not inside produce
Idle ==
    [pc |-> "idle", results |-> <<>>, y |-> None, row |-> 0, col |-> 0,
     labels |-> <<>>, out |-> <<>>, raised |-> "none", tmp |-> 0,
     logged |-> 0, summary |-> -1]

\* the thread after the labels add were appended for the identity at its
\* position: the next identity of the row, the next row (np.apply_along_axis
\* raises ValueError on a row of another width than the first), or the end
\* of the results
Advance(l, k, add) ==
    LET labels == l.labels \o add
        last == l.row = Len(l.results)
        next == IF last THEN "summary" ELSE "test"
    IN  IF k = 1
        THEN [l EXCEPT !.out = Append(@, add), !.row = @ + 1, !.pc = next]
        ELSE IF l.col < Len(l.results[l.row])
        THEN [l EXCEPT !.labels = labels, !.col = @ + 1, !.pc = "test"]
        ELSE IF l.row > 1 /\ Len(labels) # Len(l.out[1])
        THEN [l EXCEPT !.labels = <<>>, !.out = <<>>,
                       !.raised = "ValueError", !.pc = "done"]
        ELSE [l EXCEPT !.labels = <<>>, !.out = Append(@, labels),
                       !.row = @ + 1, !.col = 1, !.pc = next]

\* the label in the place of an out-of-range identity, taken from the
\* shared counter
ReplacementByCount(k, row, y, count) ==
    IF k = 1 THEN <<count % Len(y)>> ELSE FirstInRange(row, y)

\* the label to_label (k == 1) and to_labels put in the place of an
\* out-of-range identity
Replacement(k, row, y, count) ==
    IF k = 1 THEN <<0>> ELSE FirstInRange(row, y)

ConcInit ==
    /\ \E k \in KValues : self = Shared(k)
    /\ threads = [t \in Threads |-> Idle]
    /\ call = None
    /\ prim = None
    /\ twin = None
    /\ heap = <<>>
    /\ seen = None

\* the step of thread t to the local variables l
Step(t, l) ==
    /\ threads' = [threads EXCEPT ![t] = l]
    /\ UNCHANGED <<call, prim, twin, heap, seen>>

\* a thread calls produce; the index will answer with results
Begin(t) ==
    /\ threads[t].pc = "idle"
    /\ \E n \in BatchRows :
         \E results \in AnomalousResults(self.k, n) :
            Step(t, [threads[t] EXCEPT !.pc = "reset", !.results = results])
    /\ self' = self

\* self._index_out_of_bound_count = 0
Reset(t) ==
    /\ threads[t].pc = "reset"
    /\ self' = ResetCount(self)
    /\ Step(t, [threads[t] EXCEPT !.pc = "check"])

\* the test of self._this, _y = self._training_inputs, and the query
Check(t) ==
    /\ threads[t].pc = "check"
    /\ self' = self
    /\ IF self.this = None
       THEN Step(t, [threads[t] EXCEPT !.pc = "done", !.raised = "ValueError"])
       ELSE IF self.training_inputs = None
       THEN Step(t, [threads[t] EXCEPT !.pc = "done", !.raised = "TypeError"])
       ELSE Step(t, [threads[t] EXCEPT !.pc = "test", !.row = 1, !.col = 1,
                                       !.y = self.training_inputs])

\* i < len(_y): the identity is the label, or the warning is logged while
\* the counter is below the maximum
Test(t) ==
    LET l == threads[t]
        i == l.results[l.row][l.col]
    IN  /\ l.pc = "test"
        /\ self' = self
        /\ IF i < Len(Val(l.y))
           THEN Step(t, Advance(l, self.k, <<i>>))
           ELSE Step(t, [l EXCEPT
                    !.pc = "load",
                    !.logged = Logged([count |-> self.index_out_of_bound_count,
                                       logged |-> l.logged])])

\* the load of self._index_out_of_bound_count += 1
Load(t) ==
    /\ threads[t].pc = "load"
    /\ self' = self
    /\ Step(t, [threads[t] EXCEPT !.pc = "store",
                                  !.tmp = self.index_out_of_bound_count])

\* the store of self._index_out_of_bound_count += 1, and the replacement
Store(t) ==
    LET l == threads[t]
    IN  /\ l.pc = "store"
        /\ self' = [self EXCEPT !.index_out_of_bound_count = l.tmp + 1]
        /\ Step(t, Advance(l, self.k,
                           Replacement(self.k, l.results[l.row], Val(l.y),
                                       l.tmp + 1)))

\* the closing warning, and the return
Summarize(t) ==
    /\ threads[t].pc = "summary"
    /\ self' = self
    /\ Step(t, [threads[t] EXCEPT
                   !.pc = "done",
                   !.summary = Summary(self.index_out_of_bound_count)])

ConcNext ==
    \E t \in Threads :
        \/ Begin(t)
        \/ Reset(t)
        \/ Check(t)
        \/ Test(t)
        \/ Load(t)
        \/ Store(t)
        \/ Summarize(t)

SpecConc == ConcInit /\ [][ConcNext]_vars

---------------------------------------------------------------------------
(* Properties *)

\* the primitive answered a batch from a tree, with training inputs to
\* take the bound from
Answered ==
    /\ call.op = "produce"
    /\ self.this # None
    /\ self.training_inputs # None

\* len(_y), the bound of the last batch
Bound == Len(Val(self.training_inputs))

\* the out-of-range identities of the rows 1..n of the results
RECURSIVE OutOfRange(_, _, _)
OutOfRange(results, bound, n) ==
    IF n = 0 THEN 0
    ELSE OutOfRange(results, bound, n - 1)
            + Cardinality({j \in DOMAIN results[n] : results[n][j] >= bound})

\* the out-of-range identities of the last batch
Anomalies == OutOfRange(call.results, Bound, Len(call.results))

\* the fallback of a row: its first in-range identity, 0 when it has none
Fallback(row, bound) ==
    IF \E j \in DOMAIN row : row[j] < bound
    THEN row[CHOOSE j \in DOMAIN row :
                 row[j] < bound /\ \A l \in 1..(j - 1) : row[l] >= bound]
    ELSE 0

\* a row with every out-of-range identity replaced by the fallback
Substituted(row, bound) ==
    [j \in DOMAIN row |-> IF row[j] < bound THEN row[j] ELSE Fallback(row, bound)]

\* C1: on a fitted primitive produce does not raise, whatever the index
\* yields, and returns for each query row exactly k identities, each in the
\* range 0..N-1 of the training points.
C1_ProduceInRange ==
    (call.op = "produce" /\ self.fitted) =>
        /\ call.raised = "none"
        /\ Len(call.out) = Len(call.queries)
        /\ \A m \in DOMAIN call.out :
              /\ Len(call.out[m]) = self.k
              /\ \A j \in DOMAIN call.out[m] : call.out[m][j] \in 0..(Bound - 1)

\* C2: in the rows produce returns, an out-of-range identity is replaced by
\* the first in-range identity of its row, or by 0 if the row has none, and
\* an in-range identity stays as it is at its position.
C2_Fallback ==
    (Answered /\ call.raised = "none" /\ Bound > 0) =>
        \A m \in DOMAIN call.results :
            call.out[m] = Substituted(call.results[m], Bound)

\* C3: the per-identity warnings logged in a batch number
\* min(out-of-range identities of the batch, 3).
C3_WarningsCapped ==
    Answered =>
        call.logged = Min(Anomalies, INDEX_OUT_OF_BOUND_COUNT_MAX)

\* C4: when produce returns, the anomaly counter is the number of
\* out-of-range identities of that batch, whatever the counter was before.
C4_CounterPerBatch ==
    (call.op = "produce" /\ call.raised = "none") =>
        self.index_out_of_bound_count = Anomalies

\* a batch with more anomalies than warnings has returned
C4_Witness ==
    /\ call.op = "produce"
    /\ call.raised = "none"
    /\ self.index_out_of_bound_count > INDEX_OUT_OF_BOUND_COUNT_MAX

\* what produce is to leave alone
Kept(s) == <<s.this, s.fitted, s.training_inputs, s.k, s.trunc>>

\* C5: produce, with or without fallbacks, leaves the tree handle, the
\* fitted flag, the training data, k and trunc as they were, and the same
\* batch repeated with the same index results has the same outcome.
C5_ProduceReadOnly ==
    [][call'.op = "produce" =>
          /\ Kept(self') = Kept(self)
          /\ call'.again =>
                /\ call'.out = call.out
                /\ call'.raised = call.raised]_vars

\* a batch in which fallbacks were substituted has been repeated
C5_Witness ==
    /\ call.op = "produce"
    /\ call.again
    /\ call.raised = "none"
    /\ call.logged > 0

\* C7: a failed build (InvalidInput) or deserialize (CorruptData) is
\* raised to the caller and leaves the handle and the fitted flag as they
\* were before the call.
C7_BuildAtomic ==
    [][/\ call'.raised \in {"InvalidInput", "CorruptData"} =>
              /\ self'.this = self.this
              /\ self'.fitted = self.fitted
       /\ ( /\ call'.op = "fit"
            /\ ~self.fitted
            /\ self.training_inputs # None
            /\ ~ValidPoints(Val(self.training_inputs)) ) =>
              call'.raised = "InvalidInput"]_vars

\* a build has failed on a primitive that held a tree
C7_Witness ==
    /\ call.op = "fit"
    /\ call.raised = "InvalidInput"
    /\ self.this # None

\* the tree the primitive holds
Tree == Val(self.this)

\* the last batch was answered by the index as designed
AsDesigned ==
    /\ call.op = "produce"
    /\ self.this # None
    /\ call.results \in IndexResults(self, call.queries)

\* a primitive with the hyperparameter k, fitted on the points of tree t
\* in exact mode
FittedOn(t, k) ==
    fit(set_training_data(CoverTree([trunc |-> NoTrunc, k |-> k]), t.pts)).self

\* C6: a fresh primitive given the parameters of a fitted one (exact mode)
\* answers every batch as the fitted one does, without raising.
C6_RoundTrip ==
    (call.op = "produce" /\ self.this # None /\ self.training_inputs = None) =>
        \A t \in Trees :
            ( /\ t.trunc = NoTrunc
              /\ covertreec_deserialize(get_params(FittedOn(t, self.k)).ret).handle
                    = self.this ) =>
                /\ call.raised = "none"
                /\ call.out = produce(FittedOn(t, self.k), call.results).out

\* identity i is a point of the tree at minimum distance from q
IsNearest(tree, q, i) ==
    /\ i \in Idents(tree)
    /\ \A j \in Idents(tree) :
          Dist2(tree.pts[i + 1], q) <= Dist2(tree.pts[j + 1], q)

\* C8: on a tree built without truncation, produce with k = 1 returns for
\* every query the identity of a point of the tree at minimum distance; on
\* the points 0, 1, 2, 3, 100 the query 0.9 returns the identity of 1.
C8_ExactNearest ==
    (AsDesigned /\ self.k = 1 /\ Tree.trunc = NoTrunc) =>
        /\ call.raised = "none"
        /\ \A m \in DOMAIN call.queries :
              /\ IsNearest(Tree, call.queries[m], call.out[m][1])
              /\ (Tree.pts = DLine /\ call.queries[m] = <<9>>) =>
                    call.out[m][1] = 1

\* what the branch k == 1 of produce returns for the single query q,
\* <<>> when it raises
NearestBranch(s, q) ==
    {produce([s EXCEPT !.k = 1], Rows(r)).out :
        r \in NearestNeighbour(Val(s.this), <<q>>)}

\* C9: on the same tree (exact mode) the first identity of every row of
\* the branch k > 1 is the identity the branch k == 1 returns for the query.
C9_BranchesAgree ==
    (AsDesigned /\ self.k > 1 /\ Tree.trunc = NoTrunc) =>
        /\ call.raised = "none"
        /\ \A m \in DOMAIN call.queries :
              /\ Len(call.out[m]) >= 1
              /\ NearestBranch(self, call.queries[m])
                    = { << <<call.out[m][1]>> >> }

\* C10: every row produce returns for k > 1 holds k identities of the
\* tree in ascending distance from the query, the lower identity first
\* among equally distant ones.
C10_RowsOrdered ==
    (AsDesigned /\ self.k > 1) =>
        /\ call.raised = "none"
        /\ \A m \in DOMAIN call.queries :
              /\ Len(call.out[m]) = self.k
              /\ \A a \in 1..self.k : call.out[m][a] \in Idents(Tree)
              /\ \A a, b \in 1..self.k :
                    a < b => Closer(Tree, call.queries[m],
                                    call.out[m][a], call.out[m][b])

\* C19: produce on a primitive that holds no tree raises ValueError
\* ('Fit model first'), asks the index nothing, returns no output and
\* leaves the handle, the fitted flag and the training data as they were.
C19_ProduceWithoutTree ==
    [][(call'.op = "produce" /\ self.this = None) =>
          /\ call'.raised = "ValueError"
          /\ call'.results = <<>>
          /\ call'.out = <<>>
          /\ self'.this = self.this
          /\ self'.fitted = self.fitted
          /\ self'.training_inputs = self.training_inputs]_vars

\* produce has raised on a primitive that has training data and no tree
C19_Witness ==
    /\ call.op = "produce"
    /\ call.raised = "ValueError"
    /\ self.this = None
    /\ self.training_inputs # None
    /\ call.queries # <<>>

\* C21: fit on a fitted CoverTree builds nothing and leaves the primitive
\* (its handle included) as it was; set_training_data clears the fitted
\* flag, and a fit that then returns leaves the primitive fitted and holding
\* the tree of the training data set last, built with the hyperparameter
\* trunc.
C21_BuiltOnce ==
    [][/\ (call'.op = "fit" /\ self.fitted) =>
              /\ call'.raised = "none"
              /\ self' = self
       /\ call'.op = "set_training_data" => ~self'.fitted
       /\ (call'.op = "fit" /\ ~self.fitted /\ call'.raised = "none") =>
              /\ self'.fitted
              /\ self'.training_inputs = self.training_inputs
              /\ self'.this = Some([pts |-> Val(self.training_inputs),
                                    trunc |-> self.trunc])]_vars

\* fit has built the tree of the five points of the line, truncated, and
\* set the flag
C21_Witness ==
    /\ call.op = "fit"
    /\ call.raised = "none"
    /\ self.fitted
    /\ self.training_inputs = Some(DLine)
    /\ self.this = Some([pts |-> DLine, trunc |-> self.trunc])
    /\ self.trunc # NoTrunc

\* C23: whenever produce answers from a tree, the bound it tests the
\* identities against, len(_y), is the number of points the tree it holds
\* was built from.
C23_BoundIsTreeSize ==
    (call.op = "produce" /\ self.this # None) =>
        /\ self.training_inputs # None
        /\ Bound = Len(Tree.pts)

\* the out-of-range identities of the last batch that got no warning of
\* their own
Suppressed ==
    IF Anomalies > INDEX_OUT_OF_BOUND_COUNT_MAX
    THEN Anomalies - INDEX_OUT_OF_BOUND_COUNT_MAX
    ELSE 0

\* C27: the closing summary of a batch is logged exactly when the batch had
\* out-of-range identities that got no warning of their own, and the number
\* it states is the number of those identities, the anomalies of the batch
\* minus the 3 logged one by one.
C27_SummaryCountsSuppressed ==
    (Answered /\ call.raised = "none") =>
        call.summary = IF Suppressed > 0 THEN Suppressed ELSE -1

---------------------------------------------------------------------------
(* Properties of the life of a primitive *)

\* the native resources an instance holds
Held(o) ==
    (IF o.this = None THEN {} ELSE {Val(o.this)})
        \cup (IF o.ext = None THEN {} ELSE {Val(o.ext)})

\* the instances that have not been dropped
Alive ==
    (IF prim.alive THEN {prim} ELSE {})
        \cup (IF twin # None /\ Val(twin).alive THEN {Val(twin)} ELSE {})

\* C15: after any sequence of fit, set_params and LDA.__deepcopy__ no two
\* instances hold the same native resource (model handle or cached topic
\* matrix), and the drop of an instance releases no resource that another
\* instance still holds.
C15_NoAliasing ==
    [][/\ \A o1, o2 \in Alive' : o1 # o2 => Held(o1) \cap Held(o2) = {}
       /\ seen'.op = "__del__" =>
              \A o \in Alive' : \A id \in Held(o) :
                  heap'[id].state = heap[id].state]_vars

\* C16: once the primitive has been dropped, every handle created for it
\* by a build or a deserialize has been deleted.
C16_HandlesDeleted ==
    (prim # None /\ ~prim.alive) =>
        \A id \in DOMAIN heap :
            (heap[id].owner = "prim" /\ heap[id].kind \in {"tree", "model"}) =>
                heap[id].state # "live"

\* C17: get_call_metadata returns without raising, for each of the four
\* classes, True exactly when a fit has succeeded since the most recent
\* set_training_data and False otherwise.
C17_CallMetadata ==
    (seen # None /\ seen.op = "get_call_metadata") =>
        /\ seen.raised = "none"
        /\ seen.ret = seen.fit_since

\* evaluate of the class of the instance
Evaluate(o, h) ==
    IF o.class = "HDP" THEN HDP_evaluate(o, h) ELSE LDA_evaluate(o, h)

\* C18: set_training_data on a corpus with text followed by fit leaves an
\* HDP or LDA primitive fitted and holding a live model created by that fit
\* for that corpus, and evaluate then returns a score.
C18_FitOnText ==
    [][( /\ prim.class \in {"HDP", "LDA"}
         /\ seen.op = "set_training_data"
         /\ prim.training_inputs = Some("text")
         /\ seen'.op = "fit" ) =>
          /\ seen'.raised = "none"
          /\ prim'.fitted
          /\ prim'.this # None
          /\ Val(prim'.this) \notin DOMAIN heap
          /\ heap'[Val(prim'.this)]
                = [kind |-> "model", owner |-> "prim", data |-> "text",
                   trained |-> TRUE, state |-> "live"]
          /\ Evaluate(prim', heap').raised = "none"
          /\ Evaluate(prim', heap').ret = "score"]_vars

\* an HDP primitive fitted on text, evaluated after its first model was
\* replaced
C18_Witness ==
    /\ prim # None
    /\ prim.class = "HDP"
    /\ prim.fitted
    /\ prim.training_inputs = Some("text")
    /\ seen.op = "evaluate"
    /\ seen.ret = "score"
    /\ Val(prim.this) > 1

\* an HDP or LDA primitive fitted on training data without text fields,
\* with no training data set since
FittedWithoutText ==
    /\ prim.class \in {"HDP", "LDA"}
    /\ prim.fitted
    /\ prim.training_inputs = Some("notext")

\* fit runs on an HDP or LDA primitive that is not fitted and has training
\* data without text fields
FitsWithoutText ==
    /\ prim.class \in {"HDP", "LDA"}
    /\ seen'.op = "fit"
    /\ ~prim.fitted
    /\ prim.training_inputs = Some("notext")

\* the fit marks the primitive fitted, releases the model it held and
\* leaves it without a model handle
GivesModelUp ==
    /\ seen'.raised = "none"
    /\ prim'.fitted
    /\ prim'.this = None
    /\ prim.this # None => heap'[Val(prim.this)].state = "deleted"

\* produce returns its inputs, makes no native call and changes nothing
ReturnsInputs ==
    /\ seen'.raised = "none"
    /\ seen'.ret = seen'.inputs
    /\ seen'.native = 0
    /\ prim' = prim
    /\ heap' = heap

\* C22 as stated: fit on training data without text fields marks an HDP or
\* LDA primitive fitted, releases the model it held and leaves it without
\* a handle, and every produce after it returns its inputs without a native
\* call until new training data is set and fitted.
C22_FitWithoutText ==
    [][/\ FitsWithoutText => GivesModelUp
       /\ (seen'.op = "produce" /\ FittedWithoutText) => ReturnsInputs]_vars

\* C22: fit on training data without text fields marks an HDP or LDA
\* primitive fitted, releases the model it held and leaves it without a
\* handle; the primitive stays without a handle until set_params gives it
\* one or new training data with text is set and fitted, and while it has
\* none every produce returns its inputs without a native call.
C22_FitWithoutTextNoParams ==
    [][/\ FitsWithoutText => GivesModelUp
       /\ ( /\ prim.class \in {"HDP", "LDA"}
            /\ prim.this = None
            /\ prim'.this # None ) =>
              \/ seen'.op = "set_params"
              \/ /\ seen'.op = "fit"
                 /\ ~prim.fitted
                 /\ prim.training_inputs = Some("text")
       /\ ( /\ prim.class \in {"HDP", "LDA"}
            /\ seen'.op = "produce"
            /\ prim.this = None ) => ReturnsInputs]_vars

\* an LDA primitive that held a model was fitted on training data without
\* text fields, which released the model, and produce has returned its
\* inputs
C22_Witness ==
    /\ prim # None
    /\ FittedWithoutText
    /\ prim.class = "LDA"
    /\ prim.this = None
    /\ seen.op = "produce"
    /\ seen.ret = Some("text")
    /\ seen.native = 0
    /\ \E id \in DOMAIN heap :
          heap[id].kind = "model" /\ heap[id].state = "deleted"

\* C24: in every state of a CoverTree or KMeans primitive a set fitted
\* flag implies that the primitive holds a handle, and a produce that
\* follows a successful fit does not run without a model.
C24_FittedHoldsHandle ==
    (prim # None /\ prim.class \in {"CoverTree", "KMeans"}) =>
        /\ prim.fitted => prim.this # None
        /\ (seen.op = "produce" /\ seen.fit_since) =>
              /\ prim.this # None
              /\ seen.raised = "none"

\* produce has run with a model on a fitted KMeans primitive whose
\* set_training_data had failed, on data no tree can be built from
C24_Witness ==
    /\ prim # None
    /\ prim.class = "KMeans"
    /\ prim.fitted
    /\ prim.training_inputs = Some(DEmpty)
    /\ prim.initialization = "covertree"
    /\ seen.op = "produce"
    /\ seen.raised = "none"

\* C25: the matrix produce_topic_matrix of HDP and LDA returns is a live
\* topic matrix taken from the model the primitive holds at the call, also
\* after the model was replaced or released.
C25_TopicMatrixOfModel ==
    (prim # None /\ seen.op = "produce_topic_matrix"
                 /\ seen.raised = "none") =>
        /\ prim.this # None
        /\ heap[Val(seen.ret)].kind = "matrix"
        /\ heap[Val(seen.ret)].state = "live"
        /\ heap[Val(seen.ret)].data = Val(prim.this)

\* the last call handed a native function None for a handle
NullHandle == seen.native > 0 /\ seen.raised = "TypeError"

\* the last call handed a native function the handle of a released resource
ReleasedHandle == seen.native > 0 /\ seen.raised = "undefined"

\* C26: no call on a primitive of the four classes hands a native function
\* a handle that is None or that names a released resource, and no model,
\* tree or topic matrix is deleted more than once.
C26_HandleLiveness ==
    /\ ~NullHandle
    /\ ~ReleasedHandle
    /\ \A id \in DOMAIN heap : heap[id].state # "deleted twice"

\* C20: fit on a primitive of any of the four classes that is not fitted
\* and has no training data raises ValueError before any native call and
\* leaves every field of the primitive, and the native resources, as they
\* were.
C20_FitWithoutData ==
    [][(seen'.op = "fit" /\ ~prim.fitted /\ prim.training_inputs = None) =>
          /\ seen'.raised = "ValueError"
          /\ seen'.native = 0
          /\ prim' = prim
          /\ heap' = heap
          /\ twin' = twin]_vars

\* fit has raised on a KMeans primitive that holds a model (given by
\* set_params) and no training data
C20_Witness ==
    /\ prim # None
    /\ prim.class = "KMeans"
    /\ seen.op = "fit"
    /\ seen.raised = "ValueError"
    /\ prim.this # None

\* a KMeans primitive with the initialisation covertree has taken training
\* data of at least k points
Seeded ==
    /\ prim # None
    /\ prim.class = "KMeans"
    /\ prim.initialization = "covertree"
    /\ seen.op = "set_training_data"
    /\ seen.raised = "none"
    /\ prim.k <= Len(Val(prim.training_inputs))

\* the initial centres of the model the primitive holds
Centres == heap[Val(prim.this)].data

\* the initial centres a call of set_training_data with the same training
\* data makes now, when the index starts from the point start
CentresAgain(start) ==
    LET again == KMeans_set_training_data(prim, heap,
                                          Val(prim.training_inputs), start)
    IN  again.heap[Val(again.self.this)].data

\* seeds are k identities of the points, each but the first at the maximum
\* of the minimum distance to those before it
SpreadOut(seeds, points, k) ==
    LET tree == [pts |-> points, trunc |-> SeedTrunc]
        front(m) == SubSeq(seeds, 1, m - 1)
    IN  /\ Len(seeds) = k
        /\ \A m \in 1..k : seeds[m] \in Idents(tree)
        /\ \A m \in 2..k :
              /\ seeds[m] \notin Selected(front(m))
              /\ \A j \in Idents(tree) \ Selected(front(m)) :
                    MinDist2(tree, seeds[m], front(m))
                        >= MinDist2(tree, j, front(m))

---------------------------------------------------------------------------
(* Properties of concurrent batches *)

\* what the batch of thread t returns when it runs alone
Alone(t) == produce(Shared(self.k), threads[t].results)

\* C14: in every interleaving of the batches of produce running
\* concurrently on one fitted primitive the tree handle and the training
\* data (and the fitted flag, k and trunc) are never written, and each batch
\* returns exactly the identities it returns when it runs alone.
C14_ParallelBatches ==
    /\ Kept(self) = Kept(Shared(self.k))
    /\ \A t \in DOMAIN threads :
          threads[t].pc = "done" =>
              /\ threads[t].raised = Alone(t).raised
              /\ threads[t].out = Alone(t).out

\* two batches with out-of-range identities have run to their end, and an
\* increment of the shared counter was lost between them
C14_Witness ==
    /\ DOMAIN threads = Threads
    /\ \A t \in Threads :
          /\ threads[t].pc = "done"
          /\ threads[t].raised = "none"
          /\ threads[t].logged > 0
          /\ Alone(t).self.index_out_of_bound_count
                > self.index_out_of_bound_count

\* the out-of-range identities of the batch of thread t
OwnAnomalies(t) == Alone(t).self.index_out_of_bound_count

\* C28: of batches of produce that overlap on one primitive, each logs at
\* most 3 warnings for its own out-of-range identities, and the count its
\* closing summary is made from is the number of its own out-of-range
\* identities.
C28_PerBatchAccounting ==
    \A t \in DOMAIN threads :
        (threads[t].pc = "done" /\ threads[t].raised = "none") =>
            /\ threads[t].logged <= INDEX_OUT_OF_BOUND_COUNT_MAX
            /\ threads[t].summary = Summary(OwnAnomalies(t))

====
